---- MODULE Spec2Model ----
(***************************************************************************)
(* Share-link lifecycle of the pastebox file-sharing backend               *)
(* (server/src/controllers/file.controller.js).                            *)
(*                                                                         *)
(* The File and GuestFile collections, the User collection and the object  *)
(* store bucket are the state; every exported controller is an action.     *)
(* The clock counts hours: Date.now() / 3600000.                           *)
(***************************************************************************)
EXTENDS Integers, Sequences, FiniteSets, TLC

VARIABLES
    files,       \* File collection: _id -> document
    guestFiles,  \* GuestFile collection: _id -> document
    users,       \* User collection: _id -> counters
    blobs,       \* keys of the objects present in the bucket
    now,         \* Date.now(), in hours
    nextId,      \* number of file names generated for the File collection so far
    nextGuestId, \* number of file names generated for the GuestFile collection so far
    resp,        \* the last request and the response it got
    reqs,        \* requests in flight between two awaits (SpecAwait)
    expiredRun,  \* history: records whose last operations were resolutions, one of which answered 410
    steps,       \* number of requests and clock advances so far
    nextCode     \* number of short codes generateShareShortenLink has generated

vars == <<files, guestFiles, users, blobs, now, nextId, nextGuestId, resp, reqs, expiredRun, steps,
          nextCode>>

\* ---------------------------------------------------------------- bounds
MaxFiles == 1       \* documents ever created, File and GuestFile together
MaxDownloads == 2   \* successful resolutions of one document
MaxTicks == 1       \* clock advances
MaxSteps == 3       \* requests and clock advances of one behaviour
MaxReqs == 2        \* requests in flight at once
MaxAwaits == 11     \* awaits and clock advances of one behaviour
MaxLinks == 1       \* short codes generated by generateShareShortenLink
MaxBatch == 2       \* documents ever created in SpecIo
MaxDocs == 2        \* documents of the store SpecStore starts from

\* ---------------------------------------------------------------- constants
HourMs == 3600000
Hours(ms) == ms \div HourMs            \* a span of milliseconds on the model's clock
TenDays == Hours(10 * 24 * 3600000)
SignedUrlTtlSec == 24 * 60 * 60

\* ---------------------------------------------------------------- values
NoDate == 0 - 1000000       \* expiresAt absent from the document: below every date
NoHash == <<>>              \* password absent from the document
NoPwd == "undefined"       \* field absent from the request body
NoUrl == [none |-> TRUE]    \* response without downloadUrl

\* process.env.BASE_URL of the process that serves a request: empty, or the
\* origin of the site
BaseUrls == {"", "http://host"}
UserIds == {1}
UserIdInputs == {1, 2}      \* 2 names no User document
Passwords == {"", "p1", "p2"}
NewPasswords == {NoPwd, "", "p1", "p2"}
PwdInputs == Passwords \cup {NoPwd}
MimeTypes == {<<"image", "png">>, <<"text", "plain">>}
\* req.body.expiresAt: absent, a numeric string or a JSON number of hours
JsUndefined == [t |-> "undefined", nan |-> TRUE, n |-> 0]
JsString(n) == [t |-> "string", nan |-> FALSE, n |-> n]
JsNumber(n) == [t |-> "number", nan |-> FALSE, n |-> n]
\* req.body of an upload: isPassword === 'true', password, hasExpiry === 'true', expiresAt
UploadBody(isPassword, password, hasExpiry, expiresAt) ==
    [isPassword |-> isPassword, password |-> password,
     hasExpiry |-> hasExpiry, expiresAt |-> expiresAt]
UploadBodies ==
    {UploadBody(FALSE, NoPwd, FALSE, JsUndefined),
     UploadBody(TRUE, "p1", FALSE, JsUndefined),
     UploadBody(FALSE, NoPwd, TRUE, JsString(1)),
     UploadBody(TRUE, "p1", TRUE, JsString(1)),
     UploadBody(FALSE, NoPwd, TRUE, JsString(0 - 1)),
     UploadBody(FALSE, "p1", FALSE, JsUndefined),
     UploadBody(TRUE, NoPwd, FALSE, JsUndefined),
     UploadBody(FALSE, NoPwd, TRUE, JsUndefined)}
ExpiryInputs == {JsUndefined, JsString(0), JsString(1), JsNumber(0), JsNumber(1)}
StatusInputs == {"active", "inactive", "expired"}
Statuses == {"active", "inactive", "expired", "deleted"}

\* ---------------------------------------------------------------- helpers
\* buildKey: the object key of a stored file name
BuildKey(fileName) == <<"file-share-app", fileName>>

\* signedDownloadUrl: a presigned GET of bucket/key, valid for expiresInSec
SignedDownloadUrl(key, fileName, expiresInSec) ==
    [key |-> key, filename |-> fileName, expiresIn |-> expiresInSec]

\* bcrypt.hash / bcrypt.compare
BcryptHash(password) == <<"bcrypt", password>>
BcryptCompare(password, hash) == hash = BcryptHash(password)

\* JavaScript truthiness of a password field and of an expiresAt field
Truthy(s) == s # NoPwd /\ s # ""
TruthyJs(x) == IF x.t = "number" THEN x.n # 0 ELSE x.t = "string"

\* Number(x): NaN for an absent field
IsNaN(x) == x.nan
ToNumber(x) == x.n

\* variant: the deadline itself counts as passed
IsExpiredAtDeadline(file, t) == file.expiresAt # NoDate /\ file.expiresAt <= t
\* file.expiresAt && new Date(file.expiresAt) < new Date()
IsExpired(file, t) == file.expiresAt # NoDate /\ file.expiresAt < t

\* File.findOne({ shortUrl }): the ids of the documents with that shortUrl
FindByShortUrl(coll, shortUrl) == {i \in DOMAIN coll : coll[i].shortUrl = shortUrl}

\* `/f/${shortCode}`, `/g/${shortCode}` and `${process.env.BASE_URL}/f/${shortCode}`
ShortUrlF(code) == <<"", "/f/", code>>
ShortUrlG(code) == <<"", "/g/", code>>
BaseShortUrlF(base, code) == <<base, "/f/", code>>

\* shortid.generate(): the codes of the uploads are 1..MaxFiles, those of
\* generateShareShortenLink follow them
GeneratedCode(n) == MaxFiles + n + 1
ShortCodes == 1..(MaxFiles + MaxLinks)

Remove(coll, id) == [i \in DOMAIN coll \ {id} |-> coll[i]]

Response(op, key, arg, code, url) ==
    [op |-> op, key |-> key, arg |-> arg, code |-> code, url |-> url, list |-> <<>>]

\* number of clock advances that led to t
TickCount(t) == (t \div TenDays) + (t % TenDays)

\* Requests are served one at a time, each handler running to its response;
\* a behaviour holds at most MaxSteps requests and clock advances.
Step == steps < MaxSteps /\ steps' = steps + 1

\* ---------------------------------------------------------------- upload
\* variant: the hours of the request are taken as days
UploadExpiresAtDays(hasExpiry, expiresAt, t) ==
    IF hasExpiry THEN t + Hours(ToNumber(expiresAt) * 24 * HourMs) ELSE t + TenDays

\* hasExpiry === 'true' ? new Date(Date.now() + Number(expiresAt) * 3600000)
\*                      : new Date(Date.now() + 10 * 24 * 3600000)
UploadExpiresAt(hasExpiry, expiresAt, t) ==
    IF hasExpiry THEN t + Hours(ToNumber(expiresAt) * HourMs) ELSE t + TenDays

\* fileObj of uploadFiles / uploadFilesGuest, password fields included.
\* path, type and size are display metadata that no branch reads; they are left out.
\* isPasswordProtected and downloadedContent, when not set, read as false and 0.
FileObj(finalFileName, shortUrl, createdBy, isPassword, password, hasExpiry, expiresAt, t) ==
    [name |-> finalFileName,
     hasExpiry |-> hasExpiry,
     expiresAt |-> UploadExpiresAt(hasExpiry, expiresAt, t),
     status |-> "active",
     shortUrl |-> shortUrl,
     createdBy |-> createdBy,
     password |-> IF isPassword THEN BcryptHash(password) ELSE NoHash,
     isPasswordProtected |-> isPassword,
     downloadedContent |-> 0]

\* bcrypt.hash(undefined) throws; a Date built from NaN fails the save's cast
FileObjThrows(isPassword, password, hasExpiry, expiresAt) ==
    \/ isPassword /\ password = NoPwd
    \/ hasExpiry /\ IsNaN(expiresAt)

\* user stats after one file of the batch
StartsWith(mimetype, prefix) == mimetype[1] = prefix
BumpUploadStats(user, mimetype) ==
    LET u == [user EXCEPT !.totalUploads = @ + 1] IN
    IF StartsWith(mimetype, "image") THEN [u EXCEPT !.imageCount = @ + 1]
    ELSE IF StartsWith(mimetype, "video") THEN [u EXCEPT !.videoCount = @ + 1]
    ELSE IF StartsWith(mimetype, "application") THEN [u EXCEPT !.documentCount = @ + 1]
    ELSE u

\* One iteration of the for loop of uploadFiles: put the object, build and save
\* the document, bump the in-memory user. st.thrown stops the loop.
UploadOneFile(st, mimetype, userId, isPassword, password, hasExpiry, expiresAt, t) ==
    LET id == st.nextId + 1
        finalFileName == <<"user", id>>
        withBlob == [st EXCEPT !.blobs = @ \cup {BuildKey(finalFileName)}]
    IN  IF FileObjThrows(isPassword, password, hasExpiry, expiresAt)
        THEN [withBlob EXCEPT !.thrown = TRUE, !.nextId = id]
        ELSE [withBlob EXCEPT
                !.files = @ @@ (id :> FileObj(finalFileName, ShortUrlF(id), userId, isPassword,
                                              password, hasExpiry, expiresAt, t)),
                !.nextId = id,
                !.user = BumpUploadStats(@, mimetype)]

RECURSIVE UploadLoop(_, _, _, _, _, _, _, _)
UploadLoop(st, batch, userId, isPassword, password, hasExpiry, expiresAt, t) ==
    IF batch = <<>> \/ st.thrown THEN st
    ELSE UploadLoop(UploadOneFile(st, Head(batch), userId, isPassword, password,
                                  hasExpiry, expiresAt, t),
                    Tail(batch), userId, isPassword, password, hasExpiry, expiresAt, t)

Batches(maxLen) == UNION {[1..n -> MimeTypes] : n \in 0..maxLen}

uploadFiles ==
    /\ Step
    /\ UNCHANGED nextCode
    /\ \E userId \in UserIdInputs, body \in UploadBodies,
       batch \in Batches(MaxFiles - nextId - nextGuestId) :
      LET isPassword == body.isPassword
          password == body.password
          hasExpiry == body.hasExpiry
          expiresAt == body.expiresAt
      IN
        /\ UNCHANGED <<guestFiles, now, nextGuestId, reqs>>
        /\ IF batch = <<>> THEN
                /\ resp' = Response("uploadFiles", userId, NoPwd, 400, NoUrl)
                /\ UNCHANGED <<files, users, blobs, nextId, expiredRun>>
           ELSE IF userId \notin DOMAIN users THEN
                /\ resp' = Response("uploadFiles", userId, NoPwd, 404, NoUrl)
                /\ UNCHANGED <<files, users, blobs, nextId, expiredRun>>
           ELSE LET st == UploadLoop([files |-> files, blobs |-> blobs, nextId |-> nextId,
                                      user |-> users[userId], thrown |-> FALSE],
                                     batch, userId, isPassword, password, hasExpiry,
                                     expiresAt, now)
                IN  /\ files' = st.files
                    /\ blobs' = st.blobs
                    /\ nextId' = st.nextId
                    /\ users' = IF st.thrown THEN users
                                ELSE [users EXCEPT ![userId] = st.user]
                    /\ resp' = [Response("uploadFiles", userId, NoPwd,
                                         IF st.thrown THEN 500 ELSE 201, NoUrl)
                                    EXCEPT !.list = <<body, batch>>]
                    /\ UNCHANGED expiredRun

\* One iteration of the for loop of uploadFilesGuest
GuestUploadOneFile(st, mimetype, isPassword, password, hasExpiry, expiresAt, t) ==
    LET id == st.nextId + 1
        finalFileName == <<"guest", id>>
        withBlob == [st EXCEPT !.blobs = @ \cup {BuildKey(finalFileName)}]
    IN  IF FileObjThrows(isPassword, password, hasExpiry, expiresAt)
        THEN [withBlob EXCEPT !.thrown = TRUE, !.nextId = id]
        ELSE [withBlob EXCEPT
                !.files = @ @@ (id :> FileObj(finalFileName, ShortUrlG(id), <<"guest", id>>,
                                              isPassword, password, hasExpiry, expiresAt, t)),
                !.nextId = id]

RECURSIVE GuestUploadLoop(_, _, _, _, _, _, _)
GuestUploadLoop(st, batch, isPassword, password, hasExpiry, expiresAt, t) ==
    IF batch = <<>> \/ st.thrown THEN st
    ELSE GuestUploadLoop(GuestUploadOneFile(st, Head(batch), isPassword, password,
                                            hasExpiry, expiresAt, t),
                         Tail(batch), isPassword, password, hasExpiry, expiresAt, t)

uploadFilesGuest ==
    /\ Step
    /\ UNCHANGED nextCode
    /\ \E body \in UploadBodies, batch \in Batches(MaxFiles - nextId - nextGuestId) :
      LET isPassword == body.isPassword
          password == body.password
          hasExpiry == body.hasExpiry
          expiresAt == body.expiresAt
      IN
        /\ UNCHANGED <<files, users, now, nextId, reqs, expiredRun>>
        /\ IF batch = <<>> THEN
                /\ resp' = Response("uploadFilesGuest", 0, NoPwd, 400, NoUrl)
                /\ UNCHANGED <<guestFiles, blobs, nextGuestId>>
           ELSE LET st == GuestUploadLoop([files |-> guestFiles, blobs |-> blobs,
                                           nextId |-> nextGuestId, thrown |-> FALSE],
                                          batch, isPassword, password, hasExpiry,
                                          expiresAt, now)
                IN  /\ guestFiles' = st.files
                    /\ blobs' = st.blobs
                    /\ nextGuestId' = st.nextId
                    /\ resp' = [Response("uploadFilesGuest", 0, NoPwd,
                                         IF st.thrown THEN 500 ELSE 201, NoUrl)
                                    EXCEPT !.list = <<body>>]

\* ---------------------------------------------------------------- download
\* file.downloadedContent = (file.downloadedContent || 0) + 1
\* variant: the counter is bumped twice
IncDownloadedTwice(file) == [file EXCEPT !.downloadedContent = @ + 2]
IncDownloaded(file) == [file EXCEPT !.downloadedContent = @ + 1]

\* variant: the short-code paths enforce the password they are never given
ShortCodeResolveGated(coll, shortUrl, t) ==
    LET found == FindByShortUrl(coll, shortUrl) IN
    IF found = {} THEN [code |-> 404, url |-> NoUrl, coll |-> coll]
    ELSE LET id == CHOOSE i \in found : TRUE
             file == coll[id]
         IN  IF file.status # "active" THEN [code |-> 403, url |-> NoUrl, coll |-> coll]
             ELSE IF IsExpired(file, t)
             THEN [code |-> 410, url |-> NoUrl,
                   coll |-> [coll EXCEPT ![id].status = "expired"]]
             ELSE IF file.isPasswordProtected
             THEN [code |-> 401, url |-> NoUrl, coll |-> coll]
             ELSE [code |-> 200,
                   url |-> SignedDownloadUrl(BuildKey(file.name), file.name, SignedUrlTtlSec),
                   coll |-> [coll EXCEPT ![id] = IncDownloaded(@)]]

\* variant: the expiry is answered but not persisted, as downloadFile does
ShortCodeResolveNoPersist(coll, shortUrl, t) ==
    LET found == FindByShortUrl(coll, shortUrl) IN
    IF found = {} THEN [code |-> 404, url |-> NoUrl, coll |-> coll]
    ELSE LET id == CHOOSE i \in found : TRUE
             file == coll[id]
         IN  IF file.status # "active" THEN [code |-> 403, url |-> NoUrl, coll |-> coll]
             ELSE IF IsExpired(file, t) THEN [code |-> 410, url |-> NoUrl, coll |-> coll]
             ELSE [code |-> 200,
                   url |-> SignedDownloadUrl(BuildKey(file.name), file.name, SignedUrlTtlSec),
                   coll |-> [coll EXCEPT ![id] = IncDownloaded(@)]]

\* The outcome of the checks and writes of downloadInfo / guestDownloadInfo on
\* the documents of one collection: [code, url, coll], coll the collection after
\* the handler's saves.
ShortCodeResolve(coll, shortUrl, t) ==
    LET found == FindByShortUrl(coll, shortUrl) IN
    IF found = {} THEN [code |-> 404, url |-> NoUrl, coll |-> coll]
    ELSE LET id == CHOOSE i \in found : TRUE
             file == coll[id]
         IN  IF file.status # "active" THEN [code |-> 403, url |-> NoUrl, coll |-> coll]
             ELSE IF IsExpired(file, t)
             THEN [code |-> 410, url |-> NoUrl,
                   coll |-> [coll EXCEPT ![id].status = "expired"]]
             ELSE [code |-> 200,
                   url |-> SignedDownloadUrl(BuildKey(file.name), file.name, SignedUrlTtlSec),
                   coll |-> [coll EXCEPT ![id] = IncDownloaded(@)]]

\* the id of the document a short-code request is about (0 when there is none)
Target(coll, shortUrl) ==
    LET found == FindByShortUrl(coll, shortUrl) IN
    IF found = {} THEN 0 ELSE CHOOSE i \in found : TRUE

\* const user = await User.findById(file.createdBy); if (user) { totalDownloads + 1; save }
BumpTotalDownloads(us, createdBy) ==
    IF createdBy \in DOMAIN us
    THEN [us EXCEPT ![createdBy].totalDownloads = @ + 1]
    ELSE us

\* history of C5: a 410 starts a run for the record, other resolutions keep it
AfterResolution(run, kind, id, path, code) ==
    IF code = 410 THEN run \cup {<<kind, id, path>>} ELSE run
AfterOtherOp(run, kind, id) == {r \in run : ~(r[1] = kind /\ r[2] = id)}

CountOk(coll, id) == id \in DOMAIN coll => coll[id].downloadedContent < MaxDownloads

downloadInfo ==
    /\ Step
    /\ UNCHANGED nextCode
    /\ \E shortCode \in ShortCodes :
        LET r == ShortCodeResolve(files, ShortUrlF(shortCode), now)
            id == Target(files, ShortUrlF(shortCode))
        IN  /\ r.code = 200 => CountOk(files, id)
            /\ files' = r.coll
            /\ users' = IF r.code = 200 THEN BumpTotalDownloads(users, files[id].createdBy)
                        ELSE users
            /\ resp' = Response("downloadInfo", shortCode, NoPwd, r.code, r.url)
            /\ expiredRun' = AfterResolution(expiredRun, "user", id, "code", r.code)
            /\ UNCHANGED <<guestFiles, blobs, now, nextId, nextGuestId, reqs>>

guestDownloadInfo ==
    /\ Step
    /\ UNCHANGED nextCode
    /\ \E shortCode \in 1..MaxFiles :
        LET r == ShortCodeResolve(guestFiles, ShortUrlG(shortCode), now)
            id == Target(guestFiles, ShortUrlG(shortCode))
        IN  /\ r.code = 200 => CountOk(guestFiles, id)
            /\ guestFiles' = r.coll
            /\ resp' = Response("guestDownloadInfo", shortCode, NoPwd, r.code, r.url)
            /\ expiredRun' = AfterResolution(expiredRun, "guest", id, "code", r.code)
            /\ UNCHANGED <<files, users, blobs, now, nextId, nextGuestId, reqs>>

\* variant: any supplied password passes the gate
PasswordGatePresenceOnly(file, password) ==
    IF file.isPasswordProtected /\ ~Truthy(password) THEN 401 ELSE 0

\* if (file.isPasswordProtected) { 401 without password, 403 on mismatch }: 0 when the gate lets through
PasswordGate(file, password) ==
    IF file.isPasswordProtected
    THEN IF ~Truthy(password) THEN 401
         ELSE IF ~BcryptCompare(password, file.password) THEN 403
         ELSE 0
    ELSE 0

\* The outcome of downloadFile: [code, url, coll]
IdResolve(coll, fileId, password, t) ==
    IF fileId \notin DOMAIN coll THEN [code |-> 404, url |-> NoUrl, coll |-> coll]
    ELSE LET file == coll[fileId] IN
         IF file.status # "active" THEN [code |-> 403, url |-> NoUrl, coll |-> coll]
         ELSE IF IsExpired(file, t) THEN [code |-> 410, url |-> NoUrl, coll |-> coll]
         ELSE IF PasswordGate(file, password) # 0
         THEN [code |-> PasswordGate(file, password), url |-> NoUrl, coll |-> coll]
         ELSE [code |-> 200,
               url |-> SignedDownloadUrl(BuildKey(file.name), file.name, SignedUrlTtlSec),
               coll |-> [coll EXCEPT ![fileId] = IncDownloaded(@)]]

downloadFile ==
    /\ Step
    /\ UNCHANGED nextCode
    /\ \E fileId \in 1..MaxFiles, password \in PwdInputs :
        LET r == IdResolve(files, fileId, password, now) IN
            /\ r.code = 200 => CountOk(files, fileId)
            /\ files' = r.coll
            /\ users' = IF r.code = 200 THEN BumpTotalDownloads(users, files[fileId].createdBy)
                        ELSE users
            /\ resp' = Response("downloadFile", fileId, password, r.code, r.url)
            /\ expiredRun' = AfterResolution(expiredRun, "user", fileId, "id", r.code)
            /\ UNCHANGED <<guestFiles, blobs, now, nextId, nextGuestId, reqs>>

\* ---------------------------------------------------------------- delete
\* variant: the status of the record is not looked at
deleteFileAnyStatus ==
    /\ Step
    /\ UNCHANGED nextCode
    /\ \E fileId \in 1..MaxFiles :
        /\ UNCHANGED <<guestFiles, users, now, nextId, nextGuestId, reqs>>
        /\ expiredRun' = AfterOtherOp(expiredRun, "user", fileId)
        /\ IF fileId \notin DOMAIN files THEN
                /\ resp' = Response("deleteFile", fileId, NoPwd, 404, NoUrl)
                /\ UNCHANGED <<files, blobs>>
           ELSE /\ blobs' = blobs \ {BuildKey(files[fileId].name)}
                /\ files' = Remove(files, fileId)
                /\ resp' = Response("deleteFile", fileId, NoPwd, 200, NoUrl)

deleteFile ==
    /\ Step
    /\ UNCHANGED nextCode
    /\ \E fileId \in 1..MaxFiles :
        /\ UNCHANGED <<guestFiles, users, now, nextId, nextGuestId, reqs>>
        /\ expiredRun' = AfterOtherOp(expiredRun, "user", fileId)
        /\ IF fileId \notin DOMAIN files THEN
                /\ resp' = Response("deleteFile", fileId, NoPwd, 404, NoUrl)
                /\ UNCHANGED <<files, blobs>>
           ELSE IF files[fileId].status = "deleted" THEN
                /\ resp' = Response("deleteFile", fileId, NoPwd, 400, NoUrl)
                /\ UNCHANGED <<files, blobs>>
           ELSE /\ blobs' = blobs \ {BuildKey(files[fileId].name)}
                /\ files' = Remove(files, fileId)
                /\ resp' = Response("deleteFile", fileId, NoPwd, 200, NoUrl)

\* ---------------------------------------------------------------- status, expiry, password
\* SetStatus without the rejection of a status the record already has
SetStatusRedundantOk(coll, fileId, status) ==
    IF status \notin {"active", "inactive"}
    THEN [code |-> 400, error |-> "Invalid status", coll |-> coll]
    ELSE IF fileId \notin DOMAIN coll
    THEN [code |-> 404, error |-> "File not found", coll |-> coll]
    ELSE [code |-> 200, error |-> "", coll |-> [coll EXCEPT ![fileId].status = status]]

\* The outcome of updateFileStatus: [code, error, coll]; error is the text of
\* the response's error field, "" when there is none
SetStatus(coll, fileId, status) ==
    IF status \notin {"active", "inactive"}
    THEN [code |-> 400, error |-> "Invalid status", coll |-> coll]
    ELSE IF fileId \notin DOMAIN coll
    THEN [code |-> 404, error |-> "File not found", coll |-> coll]
    ELSE IF coll[fileId].status = status
    THEN [code |-> 400, error |-> "File already has this status", coll |-> coll]
    ELSE [code |-> 200, error |-> "", coll |-> [coll EXCEPT ![fileId].status = status]]

updateFileStatus ==
    /\ Step
    /\ UNCHANGED nextCode
    /\ \E fileId \in 1..MaxFiles, status \in StatusInputs :
        LET r == SetStatus(files, fileId, status) IN
            /\ files' = r.coll
            /\ resp' = [Response("updateFileStatus", fileId, status, r.code, NoUrl)
                            EXCEPT !.list = <<r.error>>]
            /\ expiredRun' = AfterOtherOp(expiredRun, "user", fileId)
            /\ UNCHANGED <<guestFiles, users, blobs, now, nextId, nextGuestId, reqs>>

\* variant: a new expiry revives an expired document
SetExpiryRevives(coll, fileId, expiresAt, t) ==
    IF fileId \notin DOMAIN coll THEN [code |-> 404, coll |-> coll]
    ELSE IF ~TruthyJs(expiresAt) THEN [code |-> 200, coll |-> coll]
    ELSE IF IsNaN(expiresAt) THEN [code |-> 500, coll |-> coll]
    ELSE [code |-> 200,
          coll |-> [coll EXCEPT ![fileId].expiresAt = t + Hours(ToNumber(expiresAt) * HourMs),
                                ![fileId].status = "active"]]

\* The outcome of updateFileExpiry: [code, coll]
SetExpiry(coll, fileId, expiresAt, t) ==
    IF fileId \notin DOMAIN coll THEN [code |-> 404, coll |-> coll]
    ELSE IF ~TruthyJs(expiresAt) THEN [code |-> 200, coll |-> coll]
    ELSE IF IsNaN(expiresAt) THEN [code |-> 500, coll |-> coll]
    ELSE [code |-> 200,
          coll |-> [coll EXCEPT ![fileId].expiresAt = t + Hours(ToNumber(expiresAt) * HourMs)]]

updateFileExpiry ==
    /\ Step
    /\ UNCHANGED nextCode
    /\ \E fileId \in 1..MaxFiles, expiresAt \in ExpiryInputs :
        LET r == SetExpiry(files, fileId, expiresAt, now) IN
            /\ files' = r.coll
            /\ resp' = [Response("updateFileExpiry", fileId, NoPwd, r.code, NoUrl)
                            EXCEPT !.list = <<expiresAt>>]
            /\ expiredRun' = AfterOtherOp(expiredRun, "user", fileId)
            /\ UNCHANGED <<guestFiles, users, blobs, now, nextId, nextGuestId, reqs>>

\* variant: the sweep counts the deadline itself as passed
SweepOneAtDeadline(file, t) ==
    IF IsExpiredAtDeadline(file, t)
    THEN [file EXCEPT !.status = "expired", !.hasExpiry = TRUE]
    ELSE [file EXCEPT !.expiresAt = t + TenDays, !.hasExpiry = TRUE]

\* the body of the for loop of updateAllFileExpiry on one document
SweepOne(file, t) ==
    IF IsExpired(file, t)
    THEN [file EXCEPT !.status = "expired", !.hasExpiry = TRUE]
    ELSE [file EXCEPT !.expiresAt = t + TenDays, !.hasExpiry = TRUE]

\* File.find() returns the documents in _id order
RECURSIVE IdsInOrder(_)
IdsInOrder(ids) ==
    IF ids = {} THEN <<>>
    ELSE LET m == CHOOSE i \in ids : \A j \in ids : i <= j
         IN  <<m>> \o IdsInOrder(ids \ {m})

updateAllFileExpiry ==
    /\ Step
    /\ UNCHANGED nextCode
    /\ UNCHANGED <<guestFiles, users, blobs, now, nextId, nextGuestId, reqs>>
    /\ IF DOMAIN files = {} THEN
            /\ resp' = Response("updateAllFileExpiry", 0, NoPwd, 404, NoUrl)
            /\ UNCHANGED <<files, expiredRun>>
       ELSE LET touched == {i \in DOMAIN files : files[i].status # "deleted"} IN
            /\ files' = [i \in DOMAIN files |->
                            IF i \in touched THEN SweepOne(files[i], now) ELSE files[i]]
            /\ resp' = [Response("updateAllFileExpiry", 0, NoPwd, 200, NoUrl)
                            EXCEPT !.list = IdsInOrder(touched)]
            /\ expiredRun' = {r \in expiredRun : r[1] # "user"}

\* The outcome of updateFilePassword: [code, coll]
SetPassword(coll, fileId, newPassword) ==
    IF fileId \notin DOMAIN coll THEN [code |-> 404, coll |-> coll]
    ELSE IF ~Truthy(newPassword) THEN [code |-> 400, coll |-> coll]
    ELSE [code |-> 200, coll |-> [coll EXCEPT ![fileId].password = BcryptHash(newPassword)]]

updateFilePassword ==
    /\ Step
    /\ UNCHANGED nextCode
    /\ \E fileId \in 1..MaxFiles, newPassword \in NewPasswords :
        LET r == SetPassword(files, fileId, newPassword) IN
            /\ files' = r.coll
            /\ resp' = Response("updateFilePassword", fileId, newPassword, r.code, NoUrl)
            /\ expiredRun' = AfterOtherOp(expiredRun, "user", fileId)
            /\ UNCHANGED <<guestFiles, users, blobs, now, nextId, nextGuestId, reqs>>

\* ---------------------------------------------------------------- links, mail, QR, verification
\* The outcome of generateShareShortenLink: [code, coll]
SetShortUrl(coll, fileId, base, shortCode) ==
    IF fileId \notin DOMAIN coll THEN [code |-> 404, coll |-> coll]
    ELSE [code |-> 200,
          coll |-> [coll EXCEPT ![fileId].shortUrl = BaseShortUrlF(base, shortCode)]]

\* resp.list is the shortUrl of the response
generateShareShortenLink ==
    /\ Step
    /\ \E fileId \in 1..MaxFiles, baseUrl \in BaseUrls :
        LET r == SetShortUrl(files, fileId, baseUrl, GeneratedCode(nextCode)) IN
            /\ r.code = 200 => nextCode < MaxLinks
            /\ files' = r.coll
            /\ nextCode' = IF r.code = 200 THEN nextCode + 1 ELSE nextCode
            /\ resp' = [Response("generateShareShortenLink", fileId, NoPwd, r.code, NoUrl)
                            EXCEPT !.list = IF r.code = 200
                                            THEN <<r.coll[fileId].shortUrl>> ELSE <<>>]
            /\ expiredRun' = AfterOtherOp(expiredRun, "user", fileId)
            /\ UNCHANGED <<guestFiles, users, blobs, now, nextId, nextGuestId, reqs>>

\* const file = await File.findById(fileId); 404; the signed URL of its object:
\* what sendLinkEmail and generateQR do before they mail or encode the URL
SignById(coll, fileId) ==
    IF fileId \notin DOMAIN coll THEN [code |-> 404, url |-> NoUrl]
    ELSE [code |-> 200,
          url |-> SignedDownloadUrl(BuildKey(coll[fileId].name), coll[fileId].name,
                                    SignedUrlTtlSec)]

\* resp.url is the signed URL of the mail's link
sendLinkEmail ==
    /\ Step
    /\ UNCHANGED nextCode
    /\ \E fileId \in 1..MaxFiles :
        LET r == SignById(files, fileId) IN
            /\ resp' = Response("sendLinkEmail", fileId, NoPwd, r.code, r.url)
            /\ expiredRun' = AfterOtherOp(expiredRun, "user", fileId)
            /\ UNCHANGED <<files, guestFiles, users, blobs, now, nextId, nextGuestId, reqs>>

\* resp.url is the signed URL the QR code of the response encodes
generateQR ==
    /\ Step
    /\ UNCHANGED nextCode
    /\ \E fileId \in 1..MaxFiles :
        LET r == SignById(files, fileId) IN
            /\ resp' = Response("generateQR", fileId, NoPwd, r.code, r.url)
            /\ expiredRun' = AfterOtherOp(expiredRun, "user", fileId)
            /\ UNCHANGED <<files, guestFiles, users, blobs, now, nextId, nextGuestId, reqs>>

\* The outcome of resolveShareLink: [code, coll]. It looks the document up
\* under `${process.env.BASE_URL}/f/${code}` and reads no status.
ResolveShareLink(coll, shortUrl, t) ==
    LET found == FindByShortUrl(coll, shortUrl) IN
    IF found = {} THEN [code |-> 404, coll |-> coll]
    ELSE LET id == CHOOSE i \in found : TRUE IN
         IF IsExpired(coll[id], t)
         THEN [code |-> 410, coll |-> [coll EXCEPT ![id].status = "expired"]]
         ELSE [code |-> 200, coll |-> coll]

resolveShareLink ==
    /\ Step
    /\ UNCHANGED nextCode
    /\ \E code \in ShortCodes, baseUrl \in BaseUrls :
        LET r == ResolveShareLink(files, BaseShortUrlF(baseUrl, code), now)
            id == Target(files, BaseShortUrlF(baseUrl, code))
        IN  /\ files' = r.coll
            /\ resp' = Response("resolveShareLink", code, NoPwd, r.code, NoUrl)
            /\ expiredRun' = AfterOtherOp(expiredRun, "user", id)
            /\ UNCHANGED <<guestFiles, users, blobs, now, nextId, nextGuestId, reqs>>

\* The status code of verifyFilePassword / verifyGuestFilePassword.
\* bcrypt.compare throws on a password or a hash that is not a string.
VerifyPassword(coll, shortUrl, password) ==
    LET found == FindByShortUrl(coll, shortUrl) IN
    IF found = {} THEN 400
    ELSE LET file == coll[CHOOSE i \in found : TRUE] IN
         IF ~file.isPasswordProtected THEN 400
         ELSE IF password = NoPwd \/ file.password = NoHash THEN 500
         ELSE IF ~BcryptCompare(password, file.password) THEN 401
         ELSE 200

verifyFilePassword ==
    /\ Step
    /\ UNCHANGED nextCode
    /\ \E shortCode \in 1..MaxFiles, password \in PwdInputs :
        /\ resp' = Response("verifyFilePassword", shortCode, password,
                            VerifyPassword(files, ShortUrlF(shortCode), password), NoUrl)
        /\ expiredRun' = AfterOtherOp(expiredRun, "user", Target(files, ShortUrlF(shortCode)))
        /\ UNCHANGED <<files, guestFiles, users, blobs, now, nextId, nextGuestId, reqs>>

verifyGuestFilePassword ==
    /\ Step
    /\ UNCHANGED nextCode
    /\ \E shortCode \in 1..MaxFiles, password \in PwdInputs :
        /\ resp' = Response("verifyGuestFilePassword", shortCode, password,
                            VerifyPassword(guestFiles, ShortUrlG(shortCode), password), NoUrl)
        /\ expiredRun' = AfterOtherOp(expiredRun, "guest",
                                      Target(guestFiles, ShortUrlG(shortCode)))
        /\ UNCHANGED <<files, guestFiles, users, blobs, now, nextId, nextGuestId, reqs>>

\* ---------------------------------------------------------------- clock
\* Time passes between two requests; no handler runs.
Tick ==
    /\ Step
    /\ UNCHANGED nextCode
    /\ \E d \in {1, TenDays} :
        /\ TickCount(now) < MaxTicks
        /\ now' = now + d
        /\ resp' = Response("tick", 0, NoPwd, 0, NoUrl)
        /\ UNCHANGED <<files, guestFiles, users, blobs, nextId, nextGuestId, reqs, expiredRun>>

\* ---------------------------------------------------------------- specification
NewUser == [totalUploads |-> 0, totalDownloads |-> 0,
            imageCount |-> 0, videoCount |-> 0, documentCount |-> 0]

Init ==
    /\ files = <<>>
    /\ guestFiles = <<>>
    /\ users = [u \in UserIds |-> NewUser]
    /\ blobs = {}
    /\ now = 0
    /\ nextId = 0
    /\ nextGuestId = 0
    /\ resp = Response("none", 0, NoPwd, 0, NoUrl)
    /\ reqs = <<>>
    /\ expiredRun = {}
    /\ steps = 0
    /\ nextCode = 0

Next ==
    \/ uploadFiles
    \/ uploadFilesGuest
    \/ downloadInfo
    \/ guestDownloadInfo
    \/ downloadFile
    \/ deleteFile
    \/ updateFileStatus
    \/ updateFileExpiry
    \/ updateAllFileExpiry
    \/ updateFilePassword
    \/ generateShareShortenLink
    \/ sendLinkEmail
    \/ generateQR
    \/ resolveShareLink
    \/ verifyFilePassword
    \/ verifyGuestFilePassword
    \/ Tick

Spec == Init /\ [][Next]_vars

\* ================================================================ awaits
(***************************************************************************)
(* The same handlers at the grain of their awaits.  A request occupies a   *)
(* slot of reqs from its first await to its response; between two awaits   *)
(* any other request may run.  A document loaded by find is a private      *)
(* copy, and save writes back the paths the handler assigned.  An await on *)
(* the store or on the bucket may reject, which the handler's catch turns  *)
(* into a 500.                                                             *)
(***************************************************************************)
Slots == 1..MaxReqs
Idle == [pc |-> "idle"]
Free(r) == reqs[r].pc = "idle"
At(r, pc) == reqs[r].pc = pc

Await == steps < MaxAwaits /\ steps' = steps + 1

\* files of the upload batches in flight that are still to be stored
RECURSIVE Pending(_)
Pending(rs) ==
    IF rs = {} THEN 0
    ELSE LET r == CHOOSE x \in rs : TRUE
         IN  (IF reqs[r].pc \in {"put", "save", "gput", "gsave"}
                 THEN Len(reqs[r].batch) ELSE 0)
                - (IF reqs[r].pc \in {"save", "gsave"} THEN 1 ELSE 0)
                + Pending(rs \ {r})

\* res.status(code).json(...): the slot is released
Respond(r, op, key, arg, code, url) ==
    /\ reqs' = [reqs EXCEPT ![r] = Idle]
    /\ resp' = Response(op, key, arg, code, url)

\* the catch of an upload; resp.list is savedFiles, the _ids saved before the throw
UploadFailed(r, op, key, savedFiles) ==
    /\ reqs' = [reqs EXCEPT ![r] = Idle]
    /\ resp' = [Response(op, key, NoPwd, 500, NoUrl) EXCEPT !.list = savedFiles]

\* ---- uploadFiles
\* if (!req.files ...) 400; const user = await User.findById(userId); 404
\* budget: the number of files the model still lets a batch hold
UploadBegin(r, budget) ==
    /\ Await /\ Free(r)
    /\ UNCHANGED nextCode
    /\ \E userId \in UserIdInputs, body \in UploadBodies, batch \in Batches(budget) :
        /\ UNCHANGED <<files, guestFiles, users, blobs, now, nextId, nextGuestId, expiredRun>>
        /\ IF batch = <<>> THEN Respond(r, "uploadFiles", userId, NoPwd, 400, NoUrl)
           ELSE IF userId \notin DOMAIN users
           THEN Respond(r, "uploadFiles", userId, NoPwd, 404, NoUrl)
           ELSE /\ reqs' = [reqs EXCEPT ![r] =
                              [pc |-> "put", op |-> "uploadFiles", userId |-> userId,
                               user |-> users[userId], body |-> body, batch |-> batch,
                               id |-> 0, savedFiles |-> <<>>]]
                /\ UNCHANGED resp

uploadBegin(r) == UploadBegin(r, MaxFiles - nextId - nextGuestId - Pending(Slots))

\* await minioClient.send(new PutObjectCommand(putParams))
uploadPut(r) ==
    /\ Await /\ At(r, "put")
    /\ UNCHANGED nextCode
    /\ \E ok \in BOOLEAN :
        LET q == reqs[r]
            id == nextId + 1
        IN  /\ nextId' = id
            /\ UNCHANGED <<files, guestFiles, users, now, nextGuestId, expiredRun>>
            /\ IF ok
               THEN /\ blobs' = blobs \cup {BuildKey(<<"user", id>>)}
                    /\ reqs' = [reqs EXCEPT ![r].pc = "save", ![r].id = id]
                    /\ UNCHANGED resp
               ELSE /\ UNCHANGED blobs
                    /\ UploadFailed(r, "uploadFiles", q.userId, q.savedFiles)

\* uploadSave with a catch that removes the documents saved before the throw
uploadSaveRollsBack(r) ==
    /\ Await /\ At(r, "save")
    /\ UNCHANGED nextCode
    /\ \E ok \in BOOLEAN :
        LET q == reqs[r]
            b == q.body
        IN  /\ UNCHANGED <<guestFiles, users, blobs, now, nextId, nextGuestId, expiredRun>>
            /\ IF ok /\ ~FileObjThrows(b.isPassword, b.password, b.hasExpiry, b.expiresAt)
               THEN /\ files' = files @@
                            (q.id :> FileObj(<<"user", q.id>>, ShortUrlF(q.id), q.userId,
                                             b.isPassword, b.password, b.hasExpiry,
                                             b.expiresAt, now))
                    /\ reqs' = [reqs EXCEPT
                                  ![r].user = BumpUploadStats(@, Head(q.batch)),
                                  ![r].batch = Tail(@),
                                  ![r].savedFiles = Append(@, q.id),
                                  ![r].pc = IF Tail(q.batch) = <<>> THEN "saveUser" ELSE "put"]
                    /\ UNCHANGED resp
               ELSE /\ files' = [i \in DOMAIN files \ {q.savedFiles[k] : k \in DOMAIN q.savedFiles}
                                   |-> files[i]]
                    /\ UploadFailed(r, "uploadFiles", q.userId, q.savedFiles)

\* fileObj, bcrypt.hash, await new File(fileObj).save(), the user's stats in memory
uploadSave(r) ==
    /\ Await /\ At(r, "save")
    /\ UNCHANGED nextCode
    /\ \E ok \in BOOLEAN :
        LET q == reqs[r]
            b == q.body
        IN  /\ UNCHANGED <<guestFiles, users, blobs, now, nextId, nextGuestId, expiredRun>>
            /\ IF ok /\ ~FileObjThrows(b.isPassword, b.password, b.hasExpiry, b.expiresAt)
               THEN /\ files' = files @@
                            (q.id :> FileObj(<<"user", q.id>>, ShortUrlF(q.id), q.userId,
                                             b.isPassword, b.password, b.hasExpiry,
                                             b.expiresAt, now))
                    /\ reqs' = [reqs EXCEPT
                                  ![r].user = BumpUploadStats(@, Head(q.batch)),
                                  ![r].batch = Tail(@),
                                  ![r].savedFiles = Append(@, q.id),
                                  ![r].pc = IF Tail(q.batch) = <<>> THEN "saveUser" ELSE "put"]
                    /\ UNCHANGED resp
               ELSE /\ UNCHANGED files
                    /\ UploadFailed(r, "uploadFiles", q.userId, q.savedFiles)

\* await user.save(): the counters the loop assigned are written back
uploadSaveUser(r) ==
    /\ Await /\ At(r, "saveUser") /\ reqs[r].op = "uploadFiles"
    /\ UNCHANGED nextCode
    /\ \E ok \in BOOLEAN :
        LET q == reqs[r] IN
            /\ UNCHANGED <<files, guestFiles, blobs, now, nextId, nextGuestId, expiredRun>>
            /\ IF ok
               THEN /\ users' = [users EXCEPT ![q.userId] = q.user]
                    /\ Respond(r, "uploadFiles", q.userId, NoPwd, 201, NoUrl)
               ELSE /\ UNCHANGED users
                    /\ UploadFailed(r, "uploadFiles", q.userId, q.savedFiles)

\* ---- downloadInfo, downloadFile
\* const file = await File.findOne({ shortUrl }); the checks; the signed URL;
\* the assignments to the loaded copy up to the next await
downloadInfoFind(r) ==
    /\ Await /\ Free(r)
    /\ UNCHANGED nextCode
    /\ \E shortCode \in 1..MaxFiles :
        LET id == Target(files, ShortUrlF(shortCode)) IN
            /\ UNCHANGED <<files, guestFiles, users, blobs, now, nextId, nextGuestId, expiredRun>>
            /\ IF id = 0 THEN Respond(r, "downloadInfo", shortCode, NoPwd, 404, NoUrl)
               ELSE IF files[id].status # "active"
               THEN Respond(r, "downloadInfo", shortCode, NoPwd, 403, NoUrl)
               ELSE IF IsExpired(files[id], now)
               THEN /\ reqs' = [reqs EXCEPT ![r] =
                                  [pc |-> "saveExpired", op |-> "downloadInfo",
                                   key |-> shortCode, arg |-> NoPwd, id |-> id,
                                   file |-> [files[id] EXCEPT !.status = "expired"],
                                   url |-> NoUrl, totalDownloads |-> 0]]
                    /\ UNCHANGED resp
               ELSE /\ files[id].downloadedContent < MaxDownloads
                    /\ reqs' = [reqs EXCEPT ![r] =
                                  [pc |-> "saveCount", op |-> "downloadInfo",
                                   key |-> shortCode, arg |-> NoPwd, id |-> id,
                                   file |-> IncDownloaded(files[id]),
                                   url |-> SignedDownloadUrl(BuildKey(files[id].name),
                                                             files[id].name, SignedUrlTtlSec),
                                   totalDownloads |-> 0]]
                    /\ UNCHANGED resp

\* const file = await File.findById(fileId); the checks, the password gate included
downloadFileFind(r) ==
    /\ Await /\ Free(r)
    /\ UNCHANGED nextCode
    /\ \E fileId \in 1..MaxFiles, password \in PwdInputs :
        LET out == IdResolve(files, fileId, password, now) IN
            /\ UNCHANGED <<files, guestFiles, users, blobs, now, nextId, nextGuestId, expiredRun>>
            /\ IF out.code # 200
               THEN Respond(r, "downloadFile", fileId, password, out.code, NoUrl)
               ELSE /\ files[fileId].downloadedContent < MaxDownloads
                    /\ reqs' = [reqs EXCEPT ![r] =
                                  [pc |-> "saveCount", op |-> "downloadFile",
                                   key |-> fileId, arg |-> password, id |-> fileId,
                                   file |-> out.coll[fileId], url |-> out.url,
                                   totalDownloads |-> 0]]
                    /\ UNCHANGED resp

\* variant: the count is added in the store, not written from the loaded copy
SavedCountAtomic(stored, loaded) == stored.downloadedContent + 1
\* file.save() after file.downloadedContent = ... + 1: the value of the copy is stored
SavedCount(stored, loaded) == loaded.downloadedContent

\* file.status = 'expired'; await file.save(); 410
downloadSaveExpired(r) ==
    /\ Await /\ At(r, "saveExpired")
    /\ UNCHANGED nextCode
    /\ \E ok \in BOOLEAN :
        LET q == reqs[r] IN
            /\ UNCHANGED <<guestFiles, users, blobs, now, nextId, nextGuestId, expiredRun>>
            /\ IF ok /\ q.id \in DOMAIN files
               THEN /\ files' = [files EXCEPT ![q.id].status = q.file.status]
                    /\ Respond(r, q.op, q.key, q.arg, 410, NoUrl)
               ELSE /\ UNCHANGED files
                    /\ Respond(r, q.op, q.key, q.arg, 500, NoUrl)

\* file.downloadedContent = (file.downloadedContent || 0) + 1; await file.save()
downloadSaveCount(r) ==
    /\ Await /\ At(r, "saveCount")
    /\ UNCHANGED nextCode
    /\ \E ok \in BOOLEAN :
        LET q == reqs[r] IN
            /\ UNCHANGED <<guestFiles, users, blobs, now, nextId, nextGuestId, expiredRun>>
            /\ IF ok /\ q.id \in DOMAIN files
               THEN /\ files' = [files EXCEPT ![q.id].downloadedContent =
                                                  SavedCount(files[q.id], q.file)]
                    /\ reqs' = [reqs EXCEPT ![r].pc = "findUser"]
                    /\ UNCHANGED resp
               ELSE /\ UNCHANGED files
                    /\ Respond(r, q.op, q.key, q.arg, 500, NoUrl)

\* const user = await User.findById(file.createdBy); if (user) totalDownloads + 1
downloadFindUser(r) ==
    /\ Await /\ At(r, "findUser")
    /\ UNCHANGED nextCode
    /\ \E ok \in BOOLEAN :
        LET q == reqs[r] IN
            /\ UNCHANGED <<files, guestFiles, users, blobs, now, nextId, nextGuestId, expiredRun>>
            /\ IF ~ok THEN Respond(r, q.op, q.key, q.arg, 500, NoUrl)
               ELSE IF q.file.createdBy \notin DOMAIN users
               THEN Respond(r, q.op, q.key, q.arg, 200, q.url)
               ELSE /\ reqs' = [reqs EXCEPT
                                  ![r].pc = "saveUser",
                                  ![r].totalDownloads =
                                      users[q.file.createdBy].totalDownloads + 1]
                    /\ UNCHANGED resp

\* await user.save(); 200 with the downloadUrl
downloadSaveUser(r) ==
    /\ Await /\ At(r, "saveUser") /\ reqs[r].op # "uploadFiles"
    /\ UNCHANGED nextCode
    /\ \E ok \in BOOLEAN :
        LET q == reqs[r] IN
            /\ UNCHANGED <<files, guestFiles, blobs, now, nextId, nextGuestId, expiredRun>>
            /\ IF ok
               THEN /\ users' = [users EXCEPT ![q.file.createdBy].totalDownloads =
                                                  q.totalDownloads]
                    /\ Respond(r, q.op, q.key, q.arg, 200, q.url)
               ELSE /\ UNCHANGED users
                    /\ Respond(r, q.op, q.key, q.arg, 500, NoUrl)

\* ---- deleteFile
\* const file = await File.findById(fileId); 404; 400
deleteFind(r) ==
    /\ Await /\ Free(r)
    /\ UNCHANGED nextCode
    /\ \E fileId \in 1..MaxFiles :
        /\ UNCHANGED <<files, guestFiles, users, blobs, now, nextId, nextGuestId, expiredRun>>
        /\ IF fileId \notin DOMAIN files
           THEN Respond(r, "deleteFile", fileId, NoPwd, 404, NoUrl)
           ELSE IF files[fileId].status = "deleted"
           THEN Respond(r, "deleteFile", fileId, NoPwd, 400, NoUrl)
           ELSE /\ reqs' = [reqs EXCEPT ![r] =
                              [pc |-> "deleteObject", op |-> "deleteFile",
                               id |-> fileId, file |-> files[fileId]]]
                /\ UNCHANGED resp

\* variant: a rejected DeleteObject is swallowed and the record is removed all the same
deleteObjectSwallows(r) ==
    /\ Await /\ At(r, "deleteObject")
    /\ UNCHANGED nextCode
    /\ \E ok \in BOOLEAN :
        LET q == reqs[r] IN
            /\ UNCHANGED <<files, guestFiles, users, now, nextId, nextGuestId, expiredRun>>
            /\ blobs' = IF ok THEN blobs \ {BuildKey(q.file.name)} ELSE blobs
            /\ reqs' = [reqs EXCEPT ![r].pc = "deleteOne"]
            /\ UNCHANGED resp

\* await minioClient.send(new DeleteObjectCommand({ Bucket, Key: key }))
deleteObject(r) ==
    /\ Await /\ At(r, "deleteObject")
    /\ UNCHANGED nextCode
    /\ \E ok \in BOOLEAN :
        LET q == reqs[r] IN
            /\ UNCHANGED <<files, guestFiles, users, now, nextId, nextGuestId, expiredRun>>
            /\ IF ok
               THEN /\ blobs' = blobs \ {BuildKey(q.file.name)}
                    /\ reqs' = [reqs EXCEPT ![r].pc = "deleteOne"]
                    /\ UNCHANGED resp
               ELSE /\ UNCHANGED blobs
                    /\ Respond(r, "deleteFile", q.id, NoPwd, 500, NoUrl)

\* await File.deleteOne({ _id: fileId }); 200
deleteOne(r) ==
    /\ Await /\ At(r, "deleteOne")
    /\ UNCHANGED nextCode
    /\ \E ok \in BOOLEAN :
        LET q == reqs[r] IN
            /\ UNCHANGED <<guestFiles, users, blobs, now, nextId, nextGuestId, expiredRun>>
            /\ IF ok
               THEN /\ files' = Remove(files, q.id)
                    /\ Respond(r, "deleteFile", q.id, NoPwd, 200, NoUrl)
               ELSE /\ UNCHANGED files
                    /\ Respond(r, "deleteFile", q.id, NoPwd, 500, NoUrl)

\* Time passes while requests are in flight.
AwaitTick ==
    /\ Await
    /\ UNCHANGED nextCode
    /\ \E d \in {1, TenDays} :
        /\ TickCount(now) < MaxTicks
        /\ now' = now + d
        /\ UNCHANGED <<files, guestFiles, users, blobs, nextId, nextGuestId, resp, reqs,
                       expiredRun>>

InitAwait ==
    /\ files = <<>>
    /\ guestFiles = <<>>
    /\ users = [u \in UserIds |-> NewUser]
    /\ blobs = {}
    /\ now = 0
    /\ nextId = 0
    /\ nextGuestId = 0
    /\ resp = Response("none", 0, NoPwd, 0, NoUrl)
    /\ reqs = [r \in Slots |-> Idle]
    /\ expiredRun = {}
    /\ steps = 0
    /\ nextCode = 0

NextAwait ==
    \/ \E r \in Slots : uploadBegin(r)
    \/ \E r \in Slots : uploadPut(r)
    \/ \E r \in Slots : uploadSave(r)
    \/ \E r \in Slots : uploadSaveUser(r)
    \/ \E r \in Slots : downloadInfoFind(r)
    \/ \E r \in Slots : downloadFileFind(r)
    \/ \E r \in Slots : downloadSaveExpired(r)
    \/ \E r \in Slots : downloadSaveCount(r)
    \/ \E r \in Slots : downloadFindUser(r)
    \/ \E r \in Slots : downloadSaveUser(r)
    \/ \E r \in Slots : deleteFind(r)
    \/ \E r \in Slots : deleteObject(r)
    \/ \E r \in Slots : deleteOne(r)
    \/ AwaitTick

SpecAwait == InitAwait /\ [][NextAwait]_vars

\* ================================================================ uploads and deletes
(***************************************************************************)
(* The uploads of both kinds and deleteFile at the grain of their awaits,  *)
(* with batches of several files.  The requests are served one at a time,  *)
(* in one slot; any await on the store or on the bucket may reject.        *)
(***************************************************************************)
IoSlot == 1
uploadBatchBegin(r) == UploadBegin(r, MaxBatch - nextId - nextGuestId - Pending(Slots))

\* ---- uploadFilesGuest
\* if (!req.files ...) 400
guestUploadBegin(r) ==
    /\ Await /\ Free(r)
    /\ UNCHANGED nextCode
    /\ \E body \in UploadBodies,
          batch \in Batches(MaxBatch - nextId - nextGuestId - Pending(Slots)) :
        /\ UNCHANGED <<files, guestFiles, users, blobs, now, nextId, nextGuestId, expiredRun>>
        /\ IF batch = <<>> THEN Respond(r, "uploadFilesGuest", 0, NoPwd, 400, NoUrl)
           ELSE /\ reqs' = [reqs EXCEPT ![r] =
                              [pc |-> "gput", op |-> "uploadFilesGuest", body |-> body,
                               batch |-> batch, id |-> 0, savedFiles |-> <<>>]]
                /\ UNCHANGED resp

\* await minioClient.send(new PutObjectCommand(putParams))
guestUploadPut(r) ==
    /\ Await /\ At(r, "gput")
    /\ UNCHANGED nextCode
    /\ \E ok \in BOOLEAN :
        LET q == reqs[r]
            id == nextGuestId + 1
        IN  /\ nextGuestId' = id
            /\ UNCHANGED <<files, guestFiles, users, now, nextId, expiredRun>>
            /\ IF ok
               THEN /\ blobs' = blobs \cup {BuildKey(<<"guest", id>>)}
                    /\ reqs' = [reqs EXCEPT ![r].pc = "gsave", ![r].id = id]
                    /\ UNCHANGED resp
               ELSE /\ UNCHANGED blobs
                    /\ UploadFailed(r, "uploadFilesGuest", 0, q.savedFiles)

\* fileObj, bcrypt.hash, await new GuestFile(fileObj).save(); 201 after the last file
guestUploadSave(r) ==
    /\ Await /\ At(r, "gsave")
    /\ UNCHANGED nextCode
    /\ \E ok \in BOOLEAN :
        LET q == reqs[r]
            b == q.body
        IN  /\ UNCHANGED <<files, users, blobs, now, nextId, nextGuestId, expiredRun>>
            /\ IF ok /\ ~FileObjThrows(b.isPassword, b.password, b.hasExpiry, b.expiresAt)
               THEN /\ guestFiles' = guestFiles @@
                            (q.id :> FileObj(<<"guest", q.id>>, ShortUrlG(q.id),
                                             <<"guest", q.id>>, b.isPassword, b.password,
                                             b.hasExpiry, b.expiresAt, now))
                    /\ IF Tail(q.batch) = <<>>
                       THEN /\ reqs' = [reqs EXCEPT ![r] = Idle]
                            /\ resp' = [Response("uploadFilesGuest", 0, NoPwd, 201, NoUrl)
                                            EXCEPT !.list = Append(q.savedFiles, q.id)]
                       ELSE /\ reqs' = [reqs EXCEPT ![r].batch = Tail(@),
                                                    ![r].savedFiles = Append(@, q.id),
                                                    ![r].pc = "gput"]
                            /\ UNCHANGED resp
               ELSE /\ UNCHANGED guestFiles
                    /\ UploadFailed(r, "uploadFilesGuest", 0, q.savedFiles)

NextIo ==
    \/ uploadBatchBegin(IoSlot)
    \/ uploadPut(IoSlot)
    \/ uploadSave(IoSlot)
    \/ uploadSaveUser(IoSlot)
    \/ guestUploadBegin(IoSlot)
    \/ guestUploadPut(IoSlot)
    \/ guestUploadSave(IoSlot)
    \/ deleteFind(IoSlot)
    \/ deleteObject(IoSlot)
    \/ deleteOne(IoSlot)

SpecIo == InitAwait /\ [][NextIo]_vars

\* ================================================================ any store
(***************************************************************************)
(* The sweep and deleteFile applied to a File collection of any content:   *)
(* up to MaxDocs documents of every status of the data model (deleted      *)
(* included, which no handler of this controller writes), with expiresAt   *)
(* absent, passed, at the very instant of the request or still to come.    *)
(***************************************************************************)
StoreNow == 1
StoreDates == {NoDate, StoreNow - 1, StoreNow, StoreNow + 1}
StoreDoc(id, status, expiresAt, hasExpiry) ==
    [name |-> <<"user", id>>,
     hasExpiry |-> hasExpiry,
     expiresAt |-> expiresAt,
     status |-> status,
     shortUrl |-> ShortUrlF(id),
     createdBy |-> 1,
     password |-> NoHash,
     isPasswordProtected |-> FALSE,
     downloadedContent |-> 0]

InitStore ==
    /\ \E n \in 0..MaxDocs :
        /\ \E f \in [1..n -> Statuses \X StoreDates \X BOOLEAN] :
              files = [i \in 1..n |-> StoreDoc(i, f[i][1], f[i][2], f[i][3])]
        /\ blobs = {BuildKey(<<"user", i>>) : i \in 1..n}
        /\ nextId = n
    /\ guestFiles = <<>>
    /\ users = [u \in UserIds |-> NewUser]
    /\ now = StoreNow
    /\ nextGuestId = 0
    /\ resp = Response("none", 0, NoPwd, 0, NoUrl)
    /\ reqs = <<>>
    /\ expiredRun = {}
    /\ steps = 0
    /\ nextCode = 0

NextStore ==
    \/ updateAllFileExpiry
    \/ deleteFile

SpecStore == InitStore /\ [][NextStore]_vars

\* ================================================================ claims
\* Helpers of the claims. A step's request and response are in resp'; the
\* unprimed variables are the state the request met.
ResolutionOps == {"downloadInfo", "guestDownloadInfo", "downloadFile"}
IsResolution == resp'.op \in ResolutionOps
\* the collection a resolution reads, before and after the step
CollBefore == IF resp'.op = "guestDownloadInfo" THEN guestFiles ELSE files
CollAfter == IF resp'.op = "guestDownloadInfo" THEN guestFiles' ELSE files'
\* the _id of the document the resolution found, 0 when it found none
FoundId ==
    IF resp'.op = "downloadInfo" THEN Target(files, ShortUrlF(resp'.key))
    ELSE IF resp'.op = "guestDownloadInfo" THEN Target(guestFiles, ShortUrlG(resp'.key))
    ELSE IF resp'.key \in DOMAIN files THEN resp'.key ELSE 0
RunKind == IF resp'.op = "guestDownloadInfo" THEN "guest" ELSE "user"
\* the password gate of the by-id path lets the request through
GateSatisfied ==
    resp'.op = "downloadFile" /\ FoundId # 0
        => ~files[FoundId].isPasswordProtected
           \/ (Truthy(resp'.arg) /\ BcryptCompare(resp'.arg, files[FoundId].password))
GotUrl == resp'.url # NoUrl
ActiveDoc(file) == file.status = "active"
InFuture(file, t) == file.expiresAt = NoDate \/ file.expiresAt > t
NotPassed(file, t) == file.expiresAt = NoDate \/ file.expiresAt >= t
AllDocs == {<<"user", i>> : i \in DOMAIN files} \cup {<<"guest", i>> : i \in DOMAIN guestFiles}
Doc(d) == IF d[1] = "user" THEN files[d[2]] ELSE guestFiles[d[2]]

\* C1 as stated: a resolution (the by-id one with its password gate satisfied)
\* returns a signed URL exactly when the record is active and its expiresAt is
\* unset or strictly in the future.
C1_AsStated ==
    [][IsResolution /\ GateSatisfied
         => (GotUrl <=> /\ FoundId # 0
                        /\ ActiveDoc(CollBefore[FoundId])
                        /\ InFuture(CollBefore[FoundId], now))]_vars

\* C1 amended: a resolution (the by-id one with its password gate satisfied)
\* returns a signed URL exactly when the record is active and its expiresAt is
\* unset or not earlier than the time of the call; a record resolved at the very
\* instant of its expiresAt is still served.
C1_DownloadableIffServed ==
    [][IsResolution /\ GateSatisfied
         => (GotUrl <=> /\ FoundId # 0
                        /\ ActiveDoc(CollBefore[FoundId])
                        /\ NotPassed(CollBefore[FoundId], now))]_vars

\* a short-code resolution served a record at the instant of its expiresAt
C1_Witness ==
    /\ resp.op = "downloadInfo" /\ resp.code = 200 /\ resp.url # NoUrl
    /\ \E i \in DOMAIN files :
          files[i].shortUrl = ShortUrlF(resp.key) /\ files[i].expiresAt = now

\* C2: downloadFile on an active, unexpired, password-protected record answers
\* 401 without a password and 403 with a wrong one, then issues no URL and
\* leaves the File and User collections as they were; a URL is issued only for
\* the matching password.
C2_PasswordGate ==
    [][resp'.op = "downloadFile" /\ FoundId # 0
         => LET file == files[FoundId] IN
            ActiveDoc(file) /\ NotPassed(file, now) /\ file.isPasswordProtected
              => /\ ~Truthy(resp'.arg) => resp'.code = 401
                 /\ Truthy(resp'.arg) /\ ~BcryptCompare(resp'.arg, file.password)
                      => resp'.code = 403
                 /\ resp'.code \in {401, 403}
                      => ~GotUrl /\ files' = files /\ users' = users
                 /\ GotUrl => BcryptCompare(resp'.arg, file.password)]_vars

\* a wrong password was refused on a live protected record
C2_Witness ==
    /\ resp.op = "downloadFile" /\ resp.code = 403 /\ Truthy(resp.arg)
    /\ resp.key \in DOMAIN files
    /\ files[resp.key].isPasswordProtected
    /\ ActiveDoc(files[resp.key]) /\ NotPassed(files[resp.key], now)

\* C3: downloadInfo and guestDownloadInfo on an active, unexpired,
\* password-protected record return a signed URL and add one to its
\* downloadedContent, although the request carries no password.
C3_ShortCodeSkipsPassword ==
    [][resp'.op \in {"downloadInfo", "guestDownloadInfo"} /\ FoundId # 0
         => LET file == CollBefore[FoundId] IN
            ActiveDoc(file) /\ NotPassed(file, now) /\ file.isPasswordProtected
              => /\ resp'.code = 200 /\ GotUrl /\ resp'.arg = NoPwd
                 /\ CollAfter[FoundId].downloadedContent = file.downloadedContent + 1]_vars

\* a guest short link served a protected record
C3_Witness ==
    /\ resp.op = "guestDownloadInfo" /\ resp.code = 200 /\ resp.url # NoUrl
    /\ \E i \in DOMAIN guestFiles :
          /\ guestFiles[i].shortUrl = ShortUrlG(resp.key)
          /\ guestFiles[i].isPasswordProtected
          /\ guestFiles[i].downloadedContent > 0

\* C4: the passing of time alone leaves an active record active, and every
\* resolution of an active record whose expiresAt has passed, by short code or
\* by id, sets its status to expired and answers 410.
C4_LazyExpiry ==
    [][/\ resp'.op = "tick" => files' = files /\ guestFiles' = guestFiles
       /\ IsResolution /\ FoundId # 0
            => LET file == CollBefore[FoundId] IN
               ActiveDoc(file) /\ ~NotPassed(file, now)
                 => resp'.code = 410 /\ CollAfter[FoundId].status = "expired"]_vars

\* C5 as stated: once a resolution of a record has answered 410, every further
\* resolution of it with no other operation in between answers 410 again and
\* changes no field of the record.
C5_AsStated ==
    [][IsResolution /\ FoundId # 0
         => ((\E r \in expiredRun : r[1] = RunKind /\ r[2] = FoundId)
               => resp'.code = 410 /\ CollAfter[FoundId] = CollBefore[FoundId])]_vars

\* C5 amended: once a short-code resolution of a record has answered 410, every
\* further resolution of it with no other operation in between fails with 403
\* (not available), issues no URL and changes no field of the record.
C5_ExpiredThenUnavailable ==
    [][IsResolution /\ FoundId # 0
         => (<<RunKind, FoundId, "code">> \in expiredRun
               => /\ resp'.code = 403 /\ ~GotUrl
                  /\ CollAfter[FoundId] = CollBefore[FoundId])]_vars

\* a short link answered 403 right after it had answered 410
C5_Witness ==
    /\ resp.op = "downloadInfo" /\ resp.code = 403
    /\ \E i \in DOMAIN files :
          /\ files[i].shortUrl = ShortUrlF(resp.key)
          /\ <<"user", i, "code">> \in expiredRun
          /\ files[i].status = "expired"

\* C6: served one at a time, a resolution that answers 200 adds exactly one to
\* the downloadedContent of the record it resolved, and one that answers 404,
\* 403, 410 or 401 leaves every downloadedContent as it was.
C6_CountPerResolution ==
    [][IsResolution
         => /\ resp'.code = 200
                => /\ FoundId # 0
                   /\ CollAfter[FoundId].downloadedContent
                        = CollBefore[FoundId].downloadedContent + 1
            /\ resp'.code \in {404, 403, 410, 401}
                => /\ DOMAIN files' = DOMAIN files /\ DOMAIN guestFiles' = DOMAIN guestFiles
                   /\ \A i \in DOMAIN files :
                        files'[i].downloadedContent = files[i].downloadedContent
                   /\ \A i \in DOMAIN guestFiles :
                        guestFiles'[i].downloadedContent = guestFiles[i].downloadedContent]_vars

\* a record was resolved twice and counts two
C6_Witness ==
    /\ resp.op \in ResolutionOps /\ resp.code = 200
    /\ \E d \in AllDocs : Doc(d).downloadedContent = 2

\* C8: in every state a File document is password-protected exactly when it
\* stores a password hash (so that a password set later protects the record).
C8_ProtectedIffHash ==
    \A i \in DOMAIN files : files[i].isPasswordProtected <=> files[i].password # NoHash

\* C9 as stated: no operation takes a record out of the status expired.
C9_AsStated ==
    [][\A i \in DOMAIN files :
          files[i].status = "expired" /\ i \in DOMAIN files'
            => files'[i].status = "expired"]_vars

\* C9 amended: no setExpiry, sweep, setPassword or resolution takes a record out
\* of the status expired; only updateFileStatus does, to active or inactive.
C9_ExpiredUntilSetStatus ==
    [][/\ \A i \in DOMAIN files :
            files[i].status = "expired" /\ i \in DOMAIN files'
              /\ files'[i].status # "expired"
              => /\ resp'.op = "updateFileStatus" /\ resp'.key = i /\ resp'.code = 200
                 /\ files'[i].status = resp'.arg /\ resp'.arg \in {"active", "inactive"}
       /\ \A i \in DOMAIN guestFiles :
            guestFiles[i].status = "expired" /\ i \in DOMAIN guestFiles'
              => guestFiles'[i].status = "expired"]_vars

\* an expired record got a new expiry and is still expired
C9_Witness ==
    /\ resp.op = "updateFileExpiry" /\ resp.code = 200
    /\ resp.key \in DOMAIN files
    /\ files[resp.key].status = "expired"
    /\ files[resp.key].expiresAt > now

\* C7: whatever the interleaving of resolutions of one record, its stored
\* downloadedContent never decreases from one state to the next.
C7_CountNeverDecreases ==
    [][\A i \in DOMAIN files \cap DOMAIN files' :
          files'[i].downloadedContent >= files[i].downloadedContent]_vars

\* C10: in every state, between the awaits of an upload or a delete and after a
\* rejected await included, the object of every File and GuestFile document is
\* in the bucket under the document's key.
C10_RecordHasBlob ==
    \A d \in AllDocs : BuildKey(Doc(d).name) \in blobs

\* C11: deleteFile removes a File record only once its object is out of the
\* bucket; when the DeleteObject await rejects, the request answers 500 and
\* leaves the record and the bucket as they were; on an absent record it
\* answers 404 and leaves the bucket and the collection as they were.
C11_BlobBeforeRecord ==
    [][/\ \A i \in DOMAIN files \ DOMAIN files' : BuildKey(files[i].name) \notin blobs
       /\ \A r \in Slots :
            reqs[r].pc = "deleteObject" /\ reqs'[r].pc = "idle"
              => /\ resp'.op = "deleteFile" /\ resp'.code = 500
                 /\ files' = files /\ blobs' = blobs
       /\ reqs' = reqs /\ now' = now /\ resp'.op = "deleteFile" /\ resp'.code = 404
            => resp'.key \notin DOMAIN files /\ files' = files /\ blobs' = blobs]_vars

\* a DeleteObject was rejected: 500, and the record and its object are still there
C11_Witness ==
    /\ resp.op = "deleteFile" /\ resp.code = 500
    /\ resp.key \in DOMAIN files
    /\ BuildKey(files[resp.key].name) \in blobs

\* the ids of a response's list are in increasing order
Increasing(list) == \A j \in 1..(Len(list) - 1) : list[j] < list[j + 1]

\* C12: updateAllFileExpiry on any File collection answers 404 and changes
\* nothing when the collection is empty; otherwise it leaves every deleted
\* record as it was, ends every other record whose expiresAt is earlier than
\* now with status expired and hasExpiry true, ends every remaining record
\* with expiresAt = now + 240 hours, hasExpiry true and its status unchanged,
\* and lists exactly the non-deleted records, in _id order.
C12_SweepAllExpiries ==
    [][resp'.op = "updateAllFileExpiry"
         => IF DOMAIN files = {}
            THEN resp'.code = 404 /\ files' = files
            ELSE /\ resp'.code = 200
                 /\ DOMAIN files' = DOMAIN files
                 /\ \A i \in DOMAIN files :
                      IF files[i].status = "deleted" THEN files'[i] = files[i]
                      ELSE IF files[i].expiresAt # NoDate /\ files[i].expiresAt < now
                      THEN files'[i].status = "expired" /\ files'[i].hasExpiry
                      ELSE /\ files'[i].expiresAt = now + 240
                           /\ files'[i].hasExpiry
                           /\ files'[i].status = files[i].status
                 /\ {resp'.list[j] : j \in 1..Len(resp'.list)}
                       = {i \in DOMAIN files : files[i].status # "deleted"}
                 /\ Increasing(resp'.list)]_vars

\* a sweep skipped a deleted record and marked the other one, which was past
\* its expiresAt, expired
C12_Witness ==
    /\ resp.op = "updateAllFileExpiry" /\ resp.code = 200 /\ resp.list = <<2>>
    /\ DOMAIN files = {1, 2}
    /\ files[1].status = "deleted" /\ ~files[1].hasExpiry
    /\ files[2].status = "expired" /\ files[2].hasExpiry /\ files[2].expiresAt < now

\* C15: deleteFile on a record whose status is deleted answers 400, whatever
\* the other fields of the record, and removes or changes neither the record
\* nor its object.
C15_AlreadyDeleted ==
    [][resp'.op = "deleteFile" /\ resp'.key \in DOMAIN files
         => (files[resp'.key].status = "deleted"
               => resp'.code = 400 /\ files' = files /\ blobs' = blobs)]_vars

\* a delete of a deleted record was refused; the record and its object are there
C15_Witness ==
    /\ resp.op = "deleteFile" /\ resp.code = 400
    /\ resp.key \in DOMAIN files
    /\ files[resp.key].status = "deleted"
    /\ BuildKey(files[resp.key].name) \in blobs

\* Helpers of C13: the upload of a step, the body of its request and the
\* records it created.
IsUpload == resp'.op \in {"uploadFiles", "uploadFilesGuest"} /\ resp'.list # <<>>
UploadedBody == resp'.list[1]
CreatedFiles == {files'[i] : i \in DOMAIN files' \ DOMAIN files}
CreatedGuestFiles == {guestFiles'[i] : i \in DOMAIN guestFiles' \ DOMAIN guestFiles}
Created == CreatedFiles \cup CreatedGuestFiles
StartsActiveWithExpiry(file, body, t) ==
    /\ file.status = "active"
    /\ file.expiresAt = IF body.hasExpiry THEN t + ToNumber(body.expiresAt) ELSE t + 240
    /\ file.expiresAt # NoDate
ShortUrlsInNamespace ==
    /\ \A file \in CreatedFiles : \E code \in ShortCodes : file.shortUrl = <<"", "/f/", code>>
    /\ \A file \in CreatedGuestFiles :
          \E code \in ShortCodes : file.shortUrl = <<"", "/g/", code>>

\* C13 as stated: every record an upload creates is active, expires at the
\* time of the upload + expiresAt hours when hasExpiry is true and + 240 hours
\* when it is not, is password-protected exactly when the request carried a
\* password, and has the shortUrl /f/{code} (File) or /g/{code} (GuestFile).
C13_AsStated ==
    [][IsUpload
         => /\ \A file \in Created :
                 /\ StartsActiveWithExpiry(file, UploadedBody, now)
                 /\ file.isPasswordProtected <=> Truthy(UploadedBody.password)
            /\ ShortUrlsInNamespace]_vars

\* C13 amended: the same, but the record is password-protected exactly when
\* the request's isPassword is 'true' (it then stores the hash of the
\* request's password); a password sent without that flag is ignored and
\* the record is created unprotected, with no hash.
C13_CreatedRecord ==
    [][IsUpload
         => /\ \A file \in Created :
                 /\ StartsActiveWithExpiry(file, UploadedBody, now)
                 /\ file.isPasswordProtected <=> UploadedBody.isPassword
                 /\ file.password = IF UploadedBody.isPassword
                                    THEN BcryptHash(UploadedBody.password) ELSE NoHash
            /\ ShortUrlsInNamespace]_vars

\* an upload with isPassword and without hasExpiry created a protected record
\* that expires 240 hours later
C13_Witness ==
    /\ resp.op = "uploadFiles" /\ resp.code = 201
    /\ resp.list[1].isPassword /\ ~resp.list[1].hasExpiry
    /\ nextId \in DOMAIN files
    /\ files[nextId].isPasswordProtected
    /\ files[nextId].status = "active"
    /\ files[nextId].expiresAt = now + 240

\* Helpers of C14: the verification of a step and the record it is about.
IsVerify == resp'.op \in {"verifyFilePassword", "verifyGuestFilePassword"}
VerifyColl == IF resp'.op = "verifyGuestFilePassword" THEN guestFiles ELSE files
VerifyId ==
    IF resp'.op = "verifyGuestFilePassword" THEN Target(guestFiles, ShortUrlG(resp'.key))
    ELSE Target(files, ShortUrlF(resp'.key))

\* C14: verifyFilePassword and verifyGuestFilePassword change no document, no
\* user and no object; for a record and a supplied password they answer 400
\* when the record has no password set, 401 when the password does not match
\* the stored hash and 200 when it does.
C14_VerifyPassword ==
    [][IsVerify
         => /\ files' = files /\ guestFiles' = guestFiles
            /\ users' = users /\ blobs' = blobs
            /\ VerifyId # 0 /\ Truthy(resp'.arg)
                 => LET file == VerifyColl[VerifyId] IN
                    resp'.code = IF file.password = NoHash THEN 400
                                 ELSE IF BcryptCompare(resp'.arg, file.password) THEN 200
                                 ELSE 401]_vars

\* Helpers of C16: the operations that obtain a signed URL, and the record
\* the URL of a step is for.
SigningOps == ResolutionOps \cup {"sendLinkEmail", "generateQR"}
SignedColl == IF resp'.op = "guestDownloadInfo" THEN guestFiles ELSE files
SignedId == IF resp'.op \in ResolutionOps THEN FoundId ELSE resp'.key

\* C16: whenever downloadInfo, guestDownloadInfo, downloadFile, sendLinkEmail
\* or generateQR obtains a signed URL, the record it is for is active and its
\* expiresAt is unset or in the future.
C16_SignedUrlOnlyIfDownloadable ==
    [][resp'.op \in SigningOps /\ GotUrl
         => /\ SignedId \in DOMAIN SignedColl
            /\ ActiveDoc(SignedColl[SignedId])
            /\ InFuture(SignedColl[SignedId], now)]_vars

\* C17: after generateShareShortenLink has answered 200 for a record, the
\* record's shortUrl is a new value of the form /f/{code} that no record had,
\* the previous shortUrl is the shortUrl of no record, and the lookup of
\* downloadInfo for the new code finds this record.
C17_RotateShortLink ==
    [][resp'.op = "generateShareShortenLink" /\ resp'.code = 200
         => LET id == resp'.key
                old == files[id].shortUrl
                new == files'[id].shortUrl
            IN  /\ \A j \in DOMAIN files : files[j].shortUrl # new
                /\ \E code \in ShortCodes : new = <<"", "/f/", code>>
                /\ FindByShortUrl(files', old) = {}
                /\ Target(files', ShortUrlF(new[3])) = id]_vars

\* Helpers of C19: the bucket counters of a user.
Buckets(user) == user.imageCount + user.videoCount + user.documentCount

\* C19: an uploadFiles request of n files that answers 201 raises the user's
\* totalUploads by n and the sum of imageCount, videoCount and documentCount
\* by n, no counter going down.
C19_UploadStats ==
    [][resp'.op = "uploadFiles" /\ resp'.code = 201
         => LET before == users[resp'.key]
                after == users'[resp'.key]
                n == Len(resp'.list[2])
            IN  /\ after.totalUploads = before.totalUploads + n
                /\ Buckets(after) = Buckets(before) + n
                /\ after.imageCount >= before.imageCount
                /\ after.videoCount >= before.videoCount
                /\ after.documentCount >= before.documentCount]_vars

\* C20: updateFileExpiry with a number of hours, zero included, on an existing
\* record answers 200, sets its expiresAt to now + that number of hours and
\* leaves its status, downloadedContent, password and isPasswordProtected as
\* they were; on a missing record it answers 404 and changes nothing.
C20_SetExpiry ==
    [][resp'.op = "updateFileExpiry"
         => IF resp'.key \notin DOMAIN files
            THEN resp'.code = 404 /\ files' = files
            ELSE LET hours == resp'.list[1]
                     before == files[resp'.key]
                     after == files'[resp'.key]
                 IN  ~IsNaN(hours)
                       => /\ resp'.code = 200
                          /\ after.expiresAt = now + ToNumber(hours)
                          /\ after.status = before.status
                          /\ after.downloadedContent = before.downloadedContent
                          /\ after.password = before.password
                          /\ after.isPasswordProtected = before.isPasswordProtected]_vars

\* Helpers of C18: the slot r is storing (put) or recording (save) the k-th
\* file of its batch and the step does not create it.
BatchColl(r) == IF reqs[r].op = "uploadFilesGuest" THEN guestFiles ELSE files
PutFails(r) ==
    /\ reqs[r].pc \in {"put", "gput"} /\ reqs'[r] # reqs[r]
    /\ blobs' \subseteq blobs
SaveFails(r) ==
    /\ reqs[r].pc \in {"save", "gsave"} /\ reqs'[r] # reqs[r]
    /\ IF reqs[r].op = "uploadFilesGuest" THEN reqs[r].id \notin DOMAIN guestFiles'
                                          ELSE reqs[r].id \notin DOMAIN files'

\* C18: when storing or recording the k-th file of an upload batch fails,
\* the request answers 500 and ends there, so nothing is created for the
\* files after k, and the documents and objects of files 1..k-1 stay as they
\* are: no document and no object is removed or added by the failing step.
C18_NoRollback ==
    [][\A r \in Slots :
         PutFails(r) \/ SaveFails(r)
           => /\ reqs'[r] = Idle
              /\ resp'.op = reqs[r].op /\ resp'.code = 500
              /\ resp'.list = reqs[r].savedFiles
              /\ \A k \in DOMAIN reqs[r].savedFiles :
                    LET id == reqs[r].savedFiles[k] IN
                        /\ id \in DOMAIN BatchColl(r)
                        /\ BuildKey(BatchColl(r)[id].name) \in blobs
              /\ files' = files /\ guestFiles' = guestFiles /\ blobs' = blobs]_vars

\* C18 witness: an upload of two files has failed at its second file, and the
\* document and the object of its first file are in place.
C18_Witness ==
    /\ resp.op \in {"uploadFiles", "uploadFilesGuest"} /\ resp.code = 500
    /\ Len(resp.list) = 1
    /\ LET coll == IF resp.op = "uploadFilesGuest" THEN guestFiles ELSE files
           id == resp.list[1]
       IN  /\ id \in DOMAIN coll
           /\ BuildKey(coll[id].name) \in blobs
           /\ Cardinality(DOMAIN coll) = 1
    /\ nextId + nextGuestId = 2

\* Helpers of C21: the slot r holds a downloadInfo or downloadFile request
\* whose count has been saved and whose owner is being looked up or saved,
\* and the step ends the request.
OwnerStepEnds(r) ==
    /\ reqs[r].pc \in {"findUser", "saveUser"}
    /\ reqs[r].op \in {"downloadInfo", "downloadFile"}
    /\ reqs'[r] = Idle

\* C21: once a resolution of a user share has saved the download count, the
\* request answers 200 with its signed URL whether or not the lookup or the
\* save of the owner succeeds, and the saved count stays; when the owner is
\* saved its totalDownloads is one more than it was; guestDownloadInfo
\* changes no user.
C21_OwnerUpdateBestEffort ==
    [][/\ \A r \in Slots :
            OwnerStepEnds(r)
              => /\ resp'.code = 200 /\ resp'.url = reqs[r].url
                 /\ files' = files
                 /\ users' # users
                      => LET owner == reqs[r].file.createdBy IN
                         users' = [users EXCEPT ![owner].totalDownloads = @ + 1]
       /\ resp'.op = "guestDownloadInfo" /\ now' = now => users' = users]_vars

\* C22: updateFileStatus answers 400 'Invalid status' for a status other than
\* active and inactive, 404 for a missing record and 400 'File already has
\* this status' for the status the record has, the record unchanged in each
\* case; otherwise it answers 200 and sets the status, no other field of the
\* record and nothing else in the store changing.
C22_SetStatus ==
    [][resp'.op = "updateFileStatus" /\ now' = now
         => LET fileId == resp'.key
                status == resp'.arg
            IN  /\ guestFiles' = guestFiles /\ users' = users /\ blobs' = blobs
                /\ IF status \notin {"active", "inactive"}
                   THEN /\ resp'.code = 400 /\ resp'.list = <<"Invalid status">>
                        /\ files' = files
                   ELSE IF fileId \notin DOMAIN files
                   THEN resp'.code = 404 /\ files' = files
                   ELSE IF files[fileId].status = status
                   THEN /\ resp'.code = 400
                        /\ resp'.list = <<"File already has this status">>
                        /\ files' = files
                   ELSE /\ resp'.code = 200
                        /\ files' = [files EXCEPT ![fileId].status = status]]_vars

\* C22 witness: updateFileStatus has answered 200 and the record, active
\* before, is inactive with its other fields in place.
C22_Witness ==
    /\ resp.op = "updateFileStatus" /\ resp.code = 200 /\ resp.arg = "inactive"
    /\ resp.key \in DOMAIN files
    /\ files[resp.key].status = "inactive"
    /\ files[resp.key].shortUrl = ShortUrlF(resp.key)

====
